---- MODULE Spec2Model ----
(***************************************************************************)
(* Secrets key-value store of Grafana: the backend selector                *)
(* (kvstore.ProvideService), the caching decorator it wraps the selected   *)
(* backend in, and the data source secret migration                        *)
(* (DataSourceSecretMigrationService.Run).                                 *)
(*                                                                         *)
(* Three specifications share the module, one per component:               *)
(*   SpecSel    ProvideService, one call followed step by step             *)
(*   SpecMig    Run, one external call per step, inside one transaction    *)
(*   SpecCache  the caching decorator over an underlying store             *)
(***************************************************************************)
EXTENDS Integers, Sequences, FiniteSets, TLC

\* ------------------------------------------------------------------ bounds

\* Distinct non-nil error values an external call may return.
NumErrs == 4

\* A nil error.
Nil == 0

Errors == 1..NumErrs

ErrorOrNil == {Nil} \cup Errors

VARIABLES
  \* ProvideService
  selPc,          \* position in ProvideService
  usePlugin,      \* first result of ShouldUseRemoteSecretsPlugin
  err,            \* second result of ShouldUseRemoteSecretsPlugin
  pluginErr,      \* error of GetPlugin
  isFatal,        \* first result of isPluginErrorFatal
  err2,           \* second result of isPluginErrorFatal
  store,          \* the local variable store: "sql" or "plugin"
  selLog,         \* messages logged, in order
  consulted,      \* whether isPluginErrorFatal was called
  attempted,      \* whether GetPlugin was called
  ret             \* what ProvideService returned: [store, err]

selVars == <<selPc, usePlugin, err, pluginErr, isFatal, err2, store, selLog,
            consulted, attempted, ret>>

\* ---------------------------------------------------------- ProvideService

\* The expiration (5*time.Second) and the clean-up interval (5*time.Minute)
\* handed to NewCachedKVStore, in seconds.
DefaultExpiration == 5

CleanupInterval == 300

NoStore == [backend |-> "nil", cached |-> FALSE, expiration |-> 0, cleanup |-> 0]

NoReturn == [store |-> NoStore, err |-> Nil, returned |-> FALSE]

NewCachedKVStore(s, defaultExpiration, cleanupInterval) ==
  [backend |-> s, cached |-> TRUE, expiration |-> defaultExpiration,
   cleanup |-> cleanupInterval]

\* A faulty UsePluginBranch: the flag of the check is not looked at.
UsePluginBranchIgnoresFlag(u, e) == e = Nil

\* A faulty UsePluginBranch: the error of the check is not looked at.
UsePluginBranchIgnoresErr(u, e) == u

\* The condition of the first branch: err == nil && usePlugin.
UsePluginBranch(u, e) == e = Nil /\ u

\* A faulty StoreAfterGetPlugin: the plugin store is taken whatever GetPlugin
\* returned.
StoreAfterGetPluginNoFallback(perr) == "plugin"

\* A faulty StoreAfterGetPlugin: the plugin store is never taken.
StoreAfterGetPluginKeepsSQL(perr) == "sql"

\* The store after GetPlugin returned perr: the SQL store is kept on an error.
StoreAfterGetPlugin(perr) == IF perr # Nil THEN "sql" ELSE "plugin"

\* A faulty AbortStartup: only a failed classification aborts.
AbortStartupOnErr2Only(fatal, e2) == e2 # Nil

\* A faulty AbortStartup: a failed classification does not abort.
AbortStartupOnFatalOnly(fatal, e2) == fatal

\* The condition under which start-up is aborted: isFatal || err2 != nil.
AbortStartup(fatal, e2) == fatal \/ e2 # Nil

\* The error returned on abort: err2 when it is set, else the check's error.
AbortError(e, e2) == IF e2 # Nil THEN e2 ELSE e

SelInit ==
  /\ selPc = "start"
  /\ usePlugin = FALSE
  /\ err = Nil
  /\ pluginErr = Nil
  /\ isFatal = FALSE
  /\ err2 = Nil
  /\ store = "nil"
  /\ selLog = <<>>
  /\ consulted = FALSE
  /\ attempted = FALSE
  /\ ret = NoReturn

\* store = &secretsKVStoreSQL{...}; remoteCheck.ShouldUseRemoteSecretsPlugin()
ShouldUseRemoteSecretsPlugin ==
  /\ selPc = "start"
  /\ \E u \in BOOLEAN, e \in ErrorOrNil :
       /\ usePlugin' = u
       /\ err' = e
       /\ store' = "sql"
       /\ IF UsePluginBranch(u, e)
            THEN /\ selPc' = "getPlugin"
                 /\ selLog' = Append(selLog, "using a remote plugin")
            ELSE IF e # Nil
              THEN /\ selPc' = "classify"
                   /\ selLog' = selLog
              ELSE /\ selPc' = "return"
                   /\ selLog' = Append(selLog, "using the default (SQL) implementation")
  /\ UNCHANGED <<pluginErr, isFatal, err2, consulted, attempted, ret>>

\* secretsPlugin, err := remoteCheck.GetPlugin()
GetPlugin ==
  /\ selPc = "getPlugin"
  /\ \E perr \in ErrorOrNil :
       /\ pluginErr' = perr
       /\ store' = StoreAfterGetPlugin(perr)
       /\ selLog' = IF perr # Nil
                      THEN Append(selLog, "plugin client was nil, falling back to SQL")
                      ELSE selLog
  /\ attempted' = TRUE
  /\ selPc' = "return"
  /\ UNCHANGED <<usePlugin, err, isFatal, err2, consulted, ret>>

\* isFatal, err2 := isPluginErrorFatal(...), and the return inside the branch
isPluginErrorFatal ==
  /\ selPc = "classify"
  /\ \E f \in BOOLEAN, e2 \in ErrorOrNil :
       /\ isFatal' = f
       /\ consulted' = TRUE
       /\ err2' = e2
       /\ IF AbortStartup(f, e2)
            THEN /\ selLog' = Append(selLog, "plugin is required to start -- exiting app")
                 /\ ret' = [store |-> NoStore, err |-> AbortError(err, e2),
                            returned |-> TRUE]
                 /\ selPc' = "done"
            ELSE /\ selLog' = selLog
                 /\ ret' = ret
                 /\ selPc' = "return"
  /\ UNCHANGED <<usePlugin, err, pluginErr, store, attempted>>

\* return NewCachedKVStore(store, 5*time.Second, 5*time.Minute), nil
ReturnCached ==
  /\ selPc = "return"
  /\ ret' = [store |-> NewCachedKVStore(store, DefaultExpiration, CleanupInterval),
             err |-> Nil, returned |-> TRUE]
  /\ selPc' = "done"
  /\ UNCHANGED <<usePlugin, err, pluginErr, isFatal, err2, store, selLog, consulted,
                 attempted>>

\* ------------------------------------------ DataSourceSecretMigrationService

\* Data source records in the database.
NumDS == 2

\* Calls of Run followed (the service runs once per start of the server).
MaxRuns == 2

DSIds == 1..NumDS

dataSourceSecretType == "datasource"

\* Names are unique within an organisation; the same name may be used in two.
DSNames == <<"influx-1", "prom-1", "loki-1", "tempo-1">>

OrgIdOf(i) == IF i % 2 = 1 THEN 7 ELSE 1

NameOf(i) == DSNames[((i - 1) \div 2) + 1]

UidOf(i) == <<"uid", i>>

\* JSON values of the settings blob are written as their JSON text.
MarkerKey == "secretMigrationComplete"

OtherSettings == [k \in {"httpMode"} |-> "\"POST\""]

\* The settings blobs a record may carry: no marker, the marker true or false,
\* and the marker holding a string instead of a boolean.
JsonDatas ==
  {OtherSettings} \cup
  {[k \in {"httpMode", MarkerKey} |-> IF k = MarkerKey THEN m ELSE OtherSettings[k]] :
     m \in {"true", "false", "\"true\""}}

\* An encrypted value.
Enc(p) == <<"enc", p>>

\* The legacy secure payloads record i may carry: none, or two encrypted
\* fields whose values are the record's own.
SecureJsonDatas(i) ==
  { [k \in {} |-> Enc("")],
    [k \in {"password", "basicAuthPassword"} |->
       IF k = "password" THEN Enc(<<"p@ss", i>>) ELSE Enc(<<"b@sic", i>>)] }

DataSource(i, jd, sjd) ==
  [Id |-> i, OrgId |-> OrgIdOf(i), Uid |-> UidOf(i), Name |-> NameOf(i),
   JsonData |-> jd, SecureJsonData |-> sjd]

\* simplejson: Get(key) of a missing key is a null value.
JsonGet(j, key) == IF key \in DOMAIN j THEN j[key] ELSE "null"

\* simplejson: Bool() is (true, nil) only of the boolean true; of false it is
\* (false, nil), and of any other value (false, error).
JsonBool(v) == [b |-> v = "true", err |-> IF v \in {"true", "false"} THEN 0 ELSE 1]

JsonSet(j, key, v) == [k \in DOMAIN j \cup {key} |-> IF k = key THEN v ELSE j[k]]

\* json.Marshal of a map[string]string: the keys in sorted order.  The string
\* is written as a one-element tuple holding the key/value pairs, which keeps
\* it apart from the empty string <<>>.
SortedKeys == <<"basicAuthPassword", "password">>

MarshalPairs(m) ==
  LET ks == SelectSeq(SortedKeys, LAMBDA k : k \in DOMAIN m)
  IN  [n \in 1..Len(ks) |-> <<ks[n], m[ks[n]]>>]

Marshal(m) == <<MarshalPairs(m)>>

\* The decrypted legacy secrets of a record.
DecryptLegacySecrets(ds) ==
  [k \in DOMAIN ds.SecureJsonData |-> ds.SecureJsonData[k][2]]

\* SecretsKVStore: the store is a function from the keys present to values.
KVSet(kv, key, value) ==
  [k \in DOMAIN kv \cup {key} |-> IF k = key THEN value ELSE kv[k]]

KVGet(kv, key) ==
  IF key \in DOMAIN kv THEN [value |-> kv[key], found |-> TRUE]
                       ELSE [value |-> <<>>, found |-> FALSE]

NoKeys == [k \in {} |-> <<>>]

\* A faulty HasMigration: every marker that is present counts as complete.
HasMigrationAnyMarker(ds) == MarkerKey \in DOMAIN ds.JsonData

\* A faulty HasMigration: the marker is not looked at.
HasMigrationNever(ds) == FALSE

\* hasMigration, _ := ds.JsonData.Get("secretMigrationComplete").Bool()
HasMigration(ds) == JsonBool(JsonGet(ds.JsonData, MarkerKey)).b

\* A faulty SecretKey: the tenant is left out of the key.
SecretKeyNoOrg(ds) == <<0, ds.Name, dataSourceSecretType>>

\* The key of secretsStore.Set(ctx, ds.OrgId, ds.Name, dataSourceSecretType, ...)
SecretKey(ds) == <<ds.OrgId, ds.Name, dataSourceSecretType>>

VARIABLES
  flag,           \* features.IsEnabled(FlagDisableSecretsCompatibility)
  db,             \* the committed data source records, by Id
  txdb,           \* the records as the open transaction sees them
  kvs,            \* the secrets store
  migPc,          \* position in Run
  result,         \* query.Result: the records listed, changed in place
  idx,            \* index of the loop over query.Result
  secureJsonData, \* the decrypted secrets of the current record
  runs,           \* calls of Run that returned
  runErr,         \* what the last call of Run returned
  calls,          \* external calls of the current (or last) Run: <<call, Id>>
  listed,         \* the records as the current (or last) Run listed them
  failed,         \* the call of the current (or last) Run that failed
  fnErr,          \* what the function handed to InTransaction returned
  prev            \* the Run before: whether there was one and it returned nil,
                  \* whether any Run so far returned nil,
                  \* and the store and the records it left

migVars == <<flag, db, txdb, kvs, migPc, result, idx, secureJsonData, runs,
            runErr, calls, listed, failed, fnErr, prev>>

\* A faulty NeedsCleanup: the length of the legacy payload is not looked at.
NeedsCleanupFlagOnly(ds) == flag

\* features.IsEnabled(FlagDisableSecretsCompatibility) && len(ds.SecureJsonData) > 0
NeedsCleanup(ds) == flag /\ Cardinality(DOMAIN ds.SecureJsonData) > 0

\* The error an external call returns when it fails.
ErrOf(call) ==
  CASE call = "GetDataSources" -> 1
    [] call = "DecryptLegacySecrets" -> 2
    [] call = "Set" -> 3
    [] call = "UpdateDataSource" -> 4
    [] call = "DeleteDataSourceSecrets" -> 5

NoCall == <<"none", 0>>

NoPrev == [ran |-> FALSE, ok |-> FALSE, anyOk |-> FALSE, kvs |-> NoKeys, db |-> <<>>]

MigInit ==
  /\ flag \in BOOLEAN
  /\ \E jd \in [DSIds -> JsonDatas] :
       \E sjd \in [DSIds -> UNION {SecureJsonDatas(i) : i \in DSIds}] :
         /\ \A i \in DSIds : sjd[i] \in SecureJsonDatas(i)
         /\ db = [i \in DSIds |-> DataSource(i, jd[i], sjd[i])]
  /\ txdb = <<>>
  /\ kvs = NoKeys
  /\ migPc = "idle"
  /\ result = <<>>
  /\ idx = 0
  /\ secureJsonData = <<>>
  /\ runs = 0
  /\ runErr = Nil
  /\ calls = {}
  /\ listed = <<>>
  /\ failed = NoCall
  /\ fnErr = Nil
  /\ prev = NoPrev

\* The record the loop is at.
CurrentDS == result[idx]

\* An external call made for record id.
Called(call, id) == calls \cup {<<call, id>>}

\* if err != nil { return err }: the function handed to InTransaction returns
\* the error of the call that failed.
ReturnErr(call, id) ==
  /\ failed' = <<call, id>>
  /\ fnErr' = ErrOf(call)
  /\ migPc' = "return"

\* Run: s.WaitForProvisioning() has returned and InTransaction opens the
\* transaction.
RunBegin ==
  /\ migPc = "idle"
  /\ runs < MaxRuns
  /\ migPc' = "list"
  /\ txdb' = db
  /\ calls' = {}
  /\ listed' = <<>>
  /\ failed' = NoCall
  /\ fnErr' = Nil
  /\ prev' = [ran |-> runs > 0, ok |-> runs > 0 /\ runErr = Nil,
              anyOk |-> prev.anyOk \/ (runs > 0 /\ runErr = Nil),
              kvs |-> kvs, db |-> db]
  /\ UNCHANGED <<flag, db, kvs, result, idx, secureJsonData, runs, runErr>>

\* err := s.dataSourcesService.GetDataSources(ctx, query)
GetDataSources ==
  /\ migPc = "list"
  /\ calls' = Called("GetDataSources", 0)
  /\ \/ /\ result' = txdb
        /\ listed' = txdb
        /\ idx' = 1
        /\ migPc' = "loop"
        /\ UNCHANGED <<failed, fnErr>>
     \/ /\ ReturnErr("GetDataSources", 0)
        /\ UNCHANGED <<result, listed, idx>>
  /\ UNCHANGED <<flag, db, txdb, kvs, secureJsonData, runs, runErr, prev>>

\* for _, ds := range query.Result, and the return nil after the loop
ForRange ==
  /\ migPc = "loop"
  /\ migPc' = IF idx > Len(result) THEN "return" ELSE "check"
  /\ UNCHANGED <<flag, db, txdb, kvs, result, idx, secureJsonData, runs, runErr,
                 calls, listed, failed, fnErr, prev>>

\* A faulty CheckMarker: the clean-up sits inside the branch of the records
\* that are not migrated yet, so a migrated record is passed over altogether.
CheckMarkerSkipsCleanup ==
  /\ migPc = "check"
  /\ IF HasMigration(CurrentDS)
       THEN migPc' = "loop" /\ idx' = idx + 1
       ELSE migPc' = "decrypt" /\ idx' = idx
  /\ UNCHANGED <<flag, db, txdb, kvs, result, secureJsonData, runs, runErr,
                 calls, listed, failed, fnErr, prev>>

\* A faulty CheckMarker: a record counts as migrated when the secrets store
\* holds an entry under its key, whatever its marker says.
CheckMarkerByStoreEntry ==
  /\ migPc = "check"
  /\ migPc' = IF SecretKey(CurrentDS) \in DOMAIN kvs THEN "cleanup" ELSE "decrypt"
  /\ UNCHANGED <<flag, db, txdb, kvs, result, idx, secureJsonData, runs, runErr,
                 calls, listed, failed, fnErr, prev>>

\* hasMigration, _ := ...; if !hasMigration { ... }
CheckMarker ==
  /\ migPc = "check"
  /\ migPc' = IF HasMigration(CurrentDS) THEN "cleanup" ELSE "decrypt"
  /\ UNCHANGED <<flag, db, txdb, kvs, result, idx, secureJsonData, runs, runErr,
                 calls, listed, failed, fnErr, prev>>

\* secureJsonData, err := s.dataSourcesService.DecryptLegacySecrets(ctx, ds)
DecryptLegacy ==
  /\ migPc = "decrypt"
  /\ calls' = Called("DecryptLegacySecrets", CurrentDS.Id)
  /\ \/ /\ secureJsonData' = DecryptLegacySecrets(CurrentDS)
        /\ migPc' = "set"
        /\ UNCHANGED <<failed, fnErr>>
     \/ /\ ReturnErr("DecryptLegacySecrets", CurrentDS.Id)
        /\ UNCHANGED secureJsonData
  /\ UNCHANGED <<flag, db, txdb, kvs, result, idx, runs, runErr, listed, prev>>

\* A faulty SecretsStoreSet: the error of Set is dropped and the loop goes on to
\* the update.
SecretsStoreSetIgnoresErr ==
  /\ migPc = "set"
  /\ calls' = Called("Set", CurrentDS.Id)
  /\ \/ kvs' = KVSet(kvs, SecretKey(CurrentDS), Marshal(secureJsonData))
     \/ UNCHANGED kvs
  /\ migPc' = "update"
  /\ UNCHANGED <<flag, db, txdb, result, idx, secureJsonData, runs, runErr,
                 listed, failed, fnErr, prev>>

\* jsonData, err := json.Marshal(secureJsonData), which does not fail on a
\* map[string]string; err = s.secretsStore.Set(..., string(jsonData))
SecretsStoreSet ==
  /\ migPc = "set"
  /\ calls' = Called("Set", CurrentDS.Id)
  /\ \/ /\ kvs' = KVSet(kvs, SecretKey(CurrentDS), Marshal(secureJsonData))
        /\ migPc' = "update"
        /\ UNCHANGED <<failed, fnErr>>
     \/ /\ ReturnErr("Set", CurrentDS.Id)
        /\ UNCHANGED kvs
  /\ UNCHANGED <<flag, db, txdb, result, idx, secureJsonData, runs, runErr,
                 listed, prev>>

\* A faulty SetMigrationComplete: the marker is not set.
SetMigrationCompleteForgotten(jd) == jd

\* A faulty SetMigrationComplete: a new settings blob that holds the marker
\* alone is handed to the update.
SetMigrationCompleteDropsSettings(jd) == [k \in {MarkerKey} |-> "true"]

\* ds.JsonData.Set("secretMigrationComplete", true)
SetMigrationComplete(jd) == JsonSet(jd, MarkerKey, "true")

\* The command of UpdateDataSource applied to the records of the transaction.
ApplyUpdate(recs, cmd) ==
  [recs EXCEPT ![cmd.Id].OrgId = cmd.OrgId,
               ![cmd.Id].Uid = cmd.Uid,
               ![cmd.Id].JsonData = cmd.JsonData]

\* ds.JsonData.Set("secretMigrationComplete", true);
\* err = s.dataSourcesService.UpdateDataSource(ctx, &UpdateDataSourceCommand{...})
UpdateDataSource ==
  /\ migPc = "update"
  /\ calls' = Called("UpdateDataSource", CurrentDS.Id)
  /\ LET jd == SetMigrationComplete(CurrentDS.JsonData)
         cmd == [Id |-> CurrentDS.Id, OrgId |-> CurrentDS.OrgId,
                 Uid |-> CurrentDS.Uid, JsonData |-> jd]
     IN  /\ result' = [result EXCEPT ![idx].JsonData = jd]
         /\ \/ /\ txdb' = ApplyUpdate(txdb, cmd)
               /\ migPc' = "cleanup"
               /\ UNCHANGED <<failed, fnErr>>
            \/ /\ ReturnErr("UpdateDataSource", CurrentDS.Id)
               /\ UNCHANGED txdb
  /\ UNCHANGED <<flag, db, kvs, idx, secureJsonData, runs, runErr, listed, prev>>

\* if s.features.IsEnabled(...) && len(ds.SecureJsonData) > 0 { ... }
CheckCleanup ==
  /\ migPc = "cleanup"
  /\ IF NeedsCleanup(CurrentDS)
       THEN migPc' = "delete" /\ idx' = idx
       ELSE migPc' = "loop" /\ idx' = idx + 1
  /\ UNCHANGED <<flag, db, txdb, kvs, result, secureJsonData, runs, runErr,
                 calls, listed, failed, fnErr, prev>>

\* The command of DeleteDataSourceSecrets applied to the records of the
\* transaction: the legacy payload of the record is emptied.
ApplyDeleteSecrets(recs, cmd) ==
  [recs EXCEPT ![cmd.ID].SecureJsonData = [k \in {} |-> Enc("")]]

\* A faulty DeleteDataSourceSecrets: a failed delete is passed over and the
\* loop goes on.
DeleteDataSourceSecretsIgnoresErr ==
  /\ migPc = "delete"
  /\ calls' = Called("DeleteDataSourceSecrets", CurrentDS.Id)
  /\ LET cmd == [UID |-> CurrentDS.Uid, OrgID |-> CurrentDS.OrgId, ID |-> CurrentDS.Id]
     IN  \/ /\ txdb' = ApplyDeleteSecrets(txdb, cmd)
            /\ UNCHANGED failed
         \/ /\ failed' = <<"DeleteDataSourceSecrets", CurrentDS.Id>>
            /\ UNCHANGED txdb
  /\ migPc' = "loop"
  /\ idx' = idx + 1
  /\ UNCHANGED <<flag, db, kvs, result, secureJsonData, runs, runErr, listed,
                 fnErr, prev>>

\* err := s.dataSourcesService.DeleteDataSourceSecrets(ctx, &DeleteDataSourceSecretsCommand{...})
DeleteDataSourceSecrets ==
  /\ migPc = "delete"
  /\ calls' = Called("DeleteDataSourceSecrets", CurrentDS.Id)
  /\ LET cmd == [UID |-> CurrentDS.Uid, OrgID |-> CurrentDS.OrgId, ID |-> CurrentDS.Id]
     IN  \/ /\ txdb' = ApplyDeleteSecrets(txdb, cmd)
            /\ migPc' = "loop"
            /\ idx' = idx + 1
            /\ UNCHANGED <<failed, fnErr>>
         \/ /\ ReturnErr("DeleteDataSourceSecrets", CurrentDS.Id)
            /\ UNCHANGED <<txdb, idx>>
  /\ UNCHANGED <<flag, db, kvs, result, secureJsonData, runs, runErr, listed, prev>>

\* InTransaction: the function returned nil and the transaction is committed,
\* or it returned an error and the transaction is rolled back; Run returns
\* what InTransaction returns.  The secrets store is written outside the
\* transaction and keeps what was Set.
InTransactionEnd ==
  /\ migPc = "return"
  /\ db' = IF fnErr = Nil THEN txdb ELSE db
  /\ txdb' = <<>>
  /\ runErr' = fnErr
  /\ runs' = runs + 1
  /\ migPc' = "idle"
  /\ result' = <<>>
  /\ idx' = 0
  /\ secureJsonData' = <<>>
  /\ UNCHANGED <<flag, kvs, calls, listed, failed, fnErr, prev>>

\* --------------------------------------------------------- caching decorator

\* Seconds followed: an entry written at second 0 has expired at the last.
MaxTime == 5

\* The key triples (orgId, namespace, type) of the store.
Namespaces == {"a", "b"}

CacheKeys == {<<1, ns, "x">> : ns \in Namespaces}

\* The values stored; strings are written as tuples of characters, the empty
\* string as <<>>.
Values == {<<"v", "1">>, <<"v", "2">>}

VARIABLES
  now,            \* the time, in seconds
  under,          \* the underlying store (the backend ProvideService selected)
  cache,          \* the cache: entries [value, found, expiry] by key
  lastOp          \* the last call on the decorator and what it returned

cacheVars == <<now, under, cache, lastOp>>

KVDel(kv, key) == [k \in DOMAIN kv \ {key} |-> kv[k]]

\* Rename moves the value of the key to the new namespace; a key that is not
\* there leaves the store as it is.
KVRename(kv, key, newKey) ==
  IF key \in DOMAIN kv /\ newKey # key
    THEN KVSet(KVDel(kv, key), newKey, kv[key])
    ELSE kv

Renamed(key, newNamespace) == <<key[1], newNamespace, key[3]>>

NoEntries == [k \in {} |-> [value |-> <<>>, found |-> FALSE, expiry |-> 0]]

\* A faulty Live: an entry is served whatever its expiry.
LiveForever(entry, t) == TRUE

\* An entry is live before its expiry time: an entry written at second t
\* with a time to live of d is live up to second t + d - 1.
Live(entry, t) == t < entry.expiry

\* A faulty Invalidate: the entry is left in the cache.
InvalidateNothing(c, key) == c

\* The entry of a key is taken out of the cache.
Invalidate(c, key) == [k \in DOMAIN c \ {key} |-> c[k]]

\* A faulty InvalidateRenamed: only the old key is invalidated.
InvalidateRenamedOldOnly(c, key, newKey) == Invalidate(c, key)

\* Rename invalidates the old and the new key.
InvalidateRenamed(c, key, newKey) == Invalidate(Invalidate(c, key), newKey)

\* The cache with the result of a called-through Get, expiring after the
\* time to live.
Populate(c, key, res, t) ==
  [k \in DOMAIN c \cup {key} |->
     IF k = key THEN [value |-> res.value, found |-> res.found,
                      expiry |-> t + DefaultExpiration]
                ELSE c[k]]

\* What an entry answers.
EntryRes(entry) == [value |-> entry.value, found |-> entry.found]

\* Get of the decorator at time t, the underlying Get returning error e when
\* it is called: a live entry answers, else the call goes through and a
\* successful result is cached.
CachedGet(c, kv, t, key, e) ==
  IF key \in DOMAIN c /\ Live(c[key], t)
    THEN [res |-> EntryRes(c[key]), err |-> Nil,
          fromCache |-> TRUE, cache |-> c]
    ELSE IF e # Nil
      THEN [res |-> [value |-> <<>>, found |-> FALSE], err |-> e,
            fromCache |-> FALSE, cache |-> c]
      ELSE [res |-> KVGet(kv, key), err |-> Nil,
            fromCache |-> FALSE, cache |-> Populate(c, key, KVGet(kv, key), t)]

\* A faulty WriteThrough: the entries are invalidated whether or not the
\* underlying call succeeded.
WriteThroughInvalidatesAlways(c, invalidated, e) ==
  [cache |-> invalidated, err |-> e]

\* Set, Del and Rename call through first: the entries are invalidated only
\* when the underlying call returned nil, and its error is returned as it is.
WriteThrough(c, invalidated, e) ==
  [cache |-> IF e = Nil THEN invalidated ELSE c, err |-> e]

NoOp == [op |-> "none"]

\* An error of the underlying store.
StoreErr == 1

CacheInit ==
  /\ now = 0
  /\ under = NoKeys
  /\ cache = NoEntries
  /\ lastOp = NoOp

\* Get(ctx, orgId, namespace, typ)
CacheGet ==
  \E key \in CacheKeys, e \in {Nil, StoreErr} :
    LET got == CachedGet(cache, under, now, key, e)
    IN  /\ (e # Nil => ~got.fromCache)
        /\ cache' = got.cache
        /\ lastOp' = [op |-> "Get", key |-> key, res |-> got.res, err |-> got.err,
                      storeErr |-> e,
                      fromCache |-> got.fromCache,
                      seenExpired |-> key \in DOMAIN cache /\ now >= cache[key].expiry,
                      seenOther |-> key \in DOMAIN cache
                                      /\ EntryRes(cache[key]) # KVGet(under, key)]
        /\ UNCHANGED <<now, under>>

\* Set(ctx, orgId, namespace, typ, value)
CacheSet ==
  \E key \in CacheKeys, value \in Values, e \in {Nil, StoreErr} :
    /\ under' = IF e = Nil THEN KVSet(under, key, value) ELSE under
    /\ cache' = WriteThrough(cache, Invalidate(cache, key), e).cache
    /\ lastOp' = [op |-> "Set", key |-> key, value |-> value, storeErr |-> e,
                  err |-> WriteThrough(cache, Invalidate(cache, key), e).err,
                  seenLive |-> key \in DOMAIN cache /\ now < cache[key].expiry
                                 /\ EntryRes(cache[key]) # [value |-> value, found |-> TRUE]]
    /\ UNCHANGED now

\* Del(ctx, orgId, namespace, typ)
CacheDel ==
  \E key \in CacheKeys, e \in {Nil, StoreErr} :
    /\ under' = IF e = Nil THEN KVDel(under, key) ELSE under
    /\ cache' = WriteThrough(cache, Invalidate(cache, key), e).cache
    /\ lastOp' = [op |-> "Del", key |-> key, storeErr |-> e,
                  err |-> WriteThrough(cache, Invalidate(cache, key), e).err]
    /\ UNCHANGED now

\* Rename(ctx, orgId, namespace, typ, newNamespace)
CacheRename ==
  \E key \in CacheKeys, newNamespace \in Namespaces, e \in {Nil, StoreErr} :
    /\ under' = IF e = Nil THEN KVRename(under, key, Renamed(key, newNamespace))
                            ELSE under
    /\ cache' = WriteThrough(cache,
                   InvalidateRenamed(cache, key, Renamed(key, newNamespace)), e).cache
    /\ lastOp' = [op |-> "Rename", key |-> key,
                  newKey |-> Renamed(key, newNamespace), storeErr |-> e,
                  err |-> WriteThrough(cache,
                            InvalidateRenamed(cache, key, Renamed(key, newNamespace)),
                            e).err,
                  prior |-> KVGet(under, key),
                  seenLive |-> \A k \in {key, Renamed(key, newNamespace)} :
                                 k \in DOMAIN cache /\ now < cache[k].expiry]
    /\ UNCHANGED now

\* Keys(ctx, orgId, namespace, typ) goes to the underlying store.
CacheKeysCall ==
  \E e \in {Nil, StoreErr} :
    /\ lastOp' = [op |-> "Keys", err |-> e,
                  res |-> IF e = Nil THEN DOMAIN under ELSE {}]
    /\ lastOp' # lastOp
    /\ UNCHANGED <<now, under, cache>>

\* The background sweep evicts the expired entries.
Sweep ==
  /\ cache' = [k \in {k \in DOMAIN cache : Live(cache[k], now)} |-> cache[k]]
  /\ cache' # cache
  /\ lastOp' = NoOp
  /\ UNCHANGED <<now, under>>

\* A second passes.
Tick ==
  /\ now < MaxTime
  /\ now' = now + 1
  /\ lastOp' = NoOp
  /\ UNCHANGED <<under, cache>>

\* The underlying store is written by a path that bypasses the decorator.
OutOfBand ==
  /\ \E key \in CacheKeys :
       \/ \E value \in Values : under' = KVSet(under, key, value)
       \/ under' = KVDel(under, key)
  /\ under' # under
  /\ lastOp' = NoOp
  /\ UNCHANGED <<now, cache>>

\* The decorator before any call.
CacheAtRest == CacheInit


\* ------------------------------------ the decorator under concurrent callers
\*
\* The calls of the decorator, step by step, as several callers make them on
\* one key: the cache is consulted, the underlying store is called and the
\* cache is written in separate steps, each of them atomic (the cache is a
\* lock-protected map, the store serialises its calls). Each write of the
\* store carries its number, so that a result tells which write it observes.

NumCallers == 2
MaxWrites == 2

Callers == 1..NumCallers

VARIABLES
  cnow,           \* the clock, in seconds
  cstore,         \* the value of the key in the underlying store
  centry,         \* the entry of the key in the cache
  caller,         \* each caller's position in its call, and what it holds
  writes,         \* writes of the underlying store so far
  completed       \* the latest write whose Set or Del has returned

concVars == <<cnow, cstore, centry, caller, writes, completed>>

NoEntry == [present |-> FALSE, ver |-> 0, found |-> FALSE, expiry |-> 0]

Idle == [pc |-> "idle", op |-> "none", ver |-> 0, found |-> FALSE,
         since |-> 0, err |-> Nil]

Max(a, b) == IF a >= b THEN a ELSE b

ConcInit ==
  /\ cnow = 0
  /\ cstore = [ver |-> 0, found |-> FALSE]
  /\ centry = NoEntry
  /\ caller = [c \in Callers |-> Idle]
  /\ writes = 0
  /\ completed = 0

\* Get consults the cache: a live entry answers and the call returns, else the
\* call goes on to the underlying store.
ConcGetLookup ==
  \E c \in Callers :
    /\ caller[c].pc = "idle"
    /\ caller' = [caller EXCEPT ![c] =
         IF centry.present /\ Live(centry, cnow)
           THEN [pc |-> "idle", op |-> "Get", ver |-> centry.ver,
                 found |-> centry.found, since |-> completed, err |-> Nil]
           ELSE [pc |-> "getCall", op |-> "Get", ver |-> 0, found |-> FALSE,
                 since |-> completed, err |-> Nil]]
    /\ UNCHANGED <<cnow, cstore, centry, writes, completed>>

\* The Get of the underlying store: an error is returned as it is.
ConcGetCallThrough ==
  \E c \in Callers, e \in {Nil, StoreErr} :
    /\ caller[c].pc = "getCall"
    /\ caller' = [caller EXCEPT ![c] =
         IF e # Nil
           THEN [@ EXCEPT !.pc = "idle", !.err = e]
           ELSE [@ EXCEPT !.pc = "populate", !.ver = cstore.ver,
                          !.found = cstore.found]]
    /\ UNCHANGED <<cnow, cstore, centry, writes, completed>>

\* The result of the underlying Get is put into the cache and returned.
ConcGetPopulate ==
  \E c \in Callers :
    /\ caller[c].pc = "populate"
    /\ centry' = [present |-> TRUE, ver |-> caller[c].ver,
                  found |-> caller[c].found, expiry |-> cnow + DefaultExpiration]
    /\ caller' = [caller EXCEPT ![c].pc = "idle"]
    /\ UNCHANGED <<cnow, cstore, writes, completed>>

\* Set and Del call the underlying store first; a failed call returns its
\* error with nothing changed.
ConcWriteThrough ==
  \E c \in Callers, op \in {"Set", "Del"}, e \in {Nil, StoreErr} :
    /\ caller[c].pc = "idle"
    /\ writes < MaxWrites
    /\ IF e # Nil
         THEN /\ caller' = [caller EXCEPT ![c] = [Idle EXCEPT !.op = op, !.err = e]]
              /\ UNCHANGED <<cstore, writes>>
         ELSE /\ writes' = writes + 1
              /\ cstore' = [ver |-> writes + 1, found |-> op = "Set"]
              /\ caller' = [caller EXCEPT ![c] =
                   [Idle EXCEPT !.pc = "invalidate", !.op = op,
                                !.ver = writes + 1]]
    /\ UNCHANGED <<cnow, centry, completed>>

\* After the successful write the entry is invalidated and the call returns.
ConcInvalidate ==
  \E c \in Callers :
    /\ caller[c].pc = "invalidate"
    /\ centry' = NoEntry
    /\ completed' = Max(completed, caller[c].ver)
    /\ caller' = [caller EXCEPT ![c].pc = "idle"]
    /\ UNCHANGED <<cnow, cstore, writes>>

\* The background sweep evicts the entry once it has expired.
ConcSweep ==
  /\ centry.present
  /\ ~Live(centry, cnow)
  /\ centry' = NoEntry
  /\ UNCHANGED <<cnow, cstore, caller, writes, completed>>

\* A second passes.
ConcTick ==
  /\ cnow < MaxTime
  /\ cnow' = cnow + 1
  /\ UNCHANGED <<cstore, centry, caller, writes, completed>>

\* The decorator before any caller.
ConcAtRest == ConcInit


\* ------------------------------------------------------- WaitForProvisioning
\*
\* Run calls WaitForProvisioning and then opens the transaction. Each call of
\* WaitForProvisioning has its own variable wait and registers a listener that
\* sets it; the listeners stay registered. The clock and the provisioning that
\* publishes DataSourceCreated run beside it.

WaitInterval == 5
MaxListeners == 3
MaxEvents == 2

VARIABLES
  wpc,            \* position in WaitForProvisioning, or "migrate" after it
  clock,          \* seconds since Run was called
  wait,           \* the variable wait of each call of WaitForProvisioning
  regAt,          \* when the listener of the current call was registered
  migrateAt,      \* when WaitForProvisioning returned to Run
  events,         \* DataSourceCreated events published so far
  lastEvent       \* when the last of them was published, -1 before any

waitVars == <<wpc, clock, wait, regAt, migrateAt, events, lastEvent>>

WaitInit ==
  /\ wpc = "start"
  /\ clock = 0
  /\ wait = <<>>
  /\ regAt = 0
  /\ migrateAt = 0
  /\ events = 0
  /\ lastEvent = -1

\* wait := false; s.bus.AddEventListener(func ... { wait = true })
AddEventListener ==
  /\ wpc = "start"
  /\ Len(wait) < MaxListeners
  /\ wait' = Append(wait, FALSE)
  /\ regAt' = clock
  /\ wpc' = "after"
  /\ UNCHANGED <<clock, migrateAt, events, lastEvent>>

\* time.After(5 * time.Second): the channel it returns is not received from,
\* so the call returns at once.
TimeAfter ==
  /\ wpc = "after"
  /\ wpc' = "check"
  /\ UNCHANGED <<clock, wait, regAt, migrateAt, events, lastEvent>>

\* if wait { return s.WaitForProvisioning() } else { return nil }
CheckWait ==
  /\ wpc = "check"
  /\ IF wait[Len(wait)]
       THEN wpc' = "start" /\ UNCHANGED migrateAt
       ELSE wpc' = "migrate" /\ migrateAt' = clock
  /\ UNCHANGED <<clock, wait, regAt, events, lastEvent>>

\* A DataSourceCreated event is published: every registered listener runs and
\* sets the variable wait of the call that registered it.
DataSourceCreated ==
  /\ events < MaxEvents
  /\ events' = events + 1
  /\ lastEvent' = clock
  /\ wait' = [i \in 1..Len(wait) |-> TRUE]
  /\ UNCHANGED <<wpc, clock, regAt, migrateAt>>

\* A second passes.
ClockTick ==
  /\ clock < MaxTime
  /\ clock' = clock + 1
  /\ UNCHANGED <<wpc, wait, regAt, migrateAt, events, lastEvent>>

\* Run before it is called.
WaitAtRest == WaitInit


\* --------------------------------------------------------------- FixedKVStore
\*
\* A handle made by With(kv, orgId, namespace, typ) and the store under it.

FixedOrgIds == {1, 7}
FixedTypes == {"x", dataSourceSecretType}

VARIABLES
  fixed,          \* the FixedKVStore: OrgId, Namespace, Type
  fstore,         \* the store kvStore stands for
  fixedOp         \* the last call on the handle and what it returned

fixedVars == <<fixed, fstore, fixedOp>>

\* With(kv, orgId, namespace, typ)
With(orgId, namespace, typ) ==
  [OrgId |-> orgId, Namespace |-> namespace, Type |-> typ]

\* The key the calls of the handle hand to kvStore.
FixedKey(kv) == <<kv.OrgId, kv.Namespace, kv.Type>>

\* A faulty RenameView: the namespace is assigned before the error of
\* kvStore.Rename is looked at.
RenameViewAlways(kv, newNamespace, e) == [kv EXCEPT !.Namespace = newNamespace]

\* The handle after Rename: if err != nil { return err };
\* kv.Namespace = newNamespace.
RenameView(kv, newNamespace, e) ==
  IF e # Nil THEN kv ELSE [kv EXCEPT !.Namespace = newNamespace]

FixedInit ==
  /\ \E orgId \in FixedOrgIds, namespace \in Namespaces, typ \in FixedTypes :
       fixed = With(orgId, namespace, typ)
  /\ fstore = NoKeys
  /\ fixedOp = NoOp

\* func (kv *FixedKVStore) Get(ctx)
FixedGet ==
  \E e \in {Nil, StoreErr} :
    /\ fixedOp' = [op |-> "Get", key |-> FixedKey(fixed), err |-> e,
                   storeErr |-> e, before |-> fixed,
                   res |-> IF e = Nil THEN KVGet(fstore, FixedKey(fixed))
                                      ELSE [value |-> <<>>, found |-> FALSE]]
    /\ UNCHANGED <<fixed, fstore>>

\* func (kv *FixedKVStore) Set(ctx, value)
FixedSet ==
  \E value \in Values, e \in {Nil, StoreErr} :
    /\ fstore' = IF e = Nil THEN KVSet(fstore, FixedKey(fixed), value) ELSE fstore
    /\ fixedOp' = [op |-> "Set", key |-> FixedKey(fixed), err |-> e,
                   storeErr |-> e, before |-> fixed]
    /\ UNCHANGED fixed

\* func (kv *FixedKVStore) Del(ctx)
FixedDel ==
  \E e \in {Nil, StoreErr} :
    /\ fstore' = IF e = Nil THEN KVDel(fstore, FixedKey(fixed)) ELSE fstore
    /\ fixedOp' = [op |-> "Del", key |-> FixedKey(fixed), err |-> e,
                   storeErr |-> e, before |-> fixed]
    /\ UNCHANGED fixed

\* func (kv *FixedKVStore) Keys(ctx)
FixedKeys ==
  \E e \in {Nil, StoreErr} :
    /\ fixedOp' = [op |-> "Keys", key |-> FixedKey(fixed), err |-> e,
                   storeErr |-> e, before |-> fixed,
                   res |-> IF e = Nil THEN DOMAIN fstore \cap {FixedKey(fixed)}
                                      ELSE {}]
    /\ UNCHANGED <<fixed, fstore>>

\* func (kv *FixedKVStore) Rename(ctx, newNamespace)
FixedRename ==
  \E newNamespace \in Namespaces, e \in {Nil, StoreErr} :
    /\ fstore' = IF e = Nil
                   THEN KVRename(fstore, FixedKey(fixed),
                                 Renamed(FixedKey(fixed), newNamespace))
                   ELSE fstore
    /\ fixed' = RenameView(fixed, newNamespace, e)
    /\ fixedOp' = [op |-> "Rename", key |-> FixedKey(fixed), err |-> e,
                   storeErr |-> e, before |-> fixed,
                   newNamespace |-> newNamespace]

\* No handle in use: one made for a data source secret, before any call.
FixedAtRest ==
  /\ FixedInit
  /\ fixed = With(1, "a", dataSourceSecretType)


\* ------------------------------------------------------------ specifications

vars == <<selVars, migVars, cacheVars, concVars, waitVars, fixedVars>>

\* The migration before any Run, over records that carry neither a marker nor
\* a legacy payload: the state the other components are checked in.
MigAtRest ==
  /\ MigInit
  /\ ~flag
  /\ \A i \in DSIds : db[i] = DataSource(i, OtherSettings, [k \in {} |-> Enc("")])

\* ProvideService before it is called.
SelAtRest == SelInit

InitSel == SelInit /\ MigAtRest /\ CacheAtRest /\ ConcAtRest /\ WaitAtRest
  /\ FixedAtRest

InitMig == MigInit /\ SelAtRest /\ CacheAtRest /\ ConcAtRest /\ WaitAtRest
  /\ FixedAtRest

InitCache == CacheInit /\ SelAtRest /\ MigAtRest /\ ConcAtRest /\ WaitAtRest
  /\ FixedAtRest

InitConc == ConcInit /\ SelAtRest /\ MigAtRest /\ CacheAtRest /\ WaitAtRest
  /\ FixedAtRest

InitWait ==
  WaitInit /\ SelAtRest /\ MigAtRest /\ CacheAtRest /\ ConcAtRest
  /\ FixedAtRest

InitFixed ==
  FixedInit /\ SelAtRest /\ MigAtRest /\ CacheAtRest /\ ConcAtRest
  /\ WaitAtRest

SelNext ==
  \/ ShouldUseRemoteSecretsPlugin /\ UNCHANGED <<migVars, cacheVars, concVars, waitVars, fixedVars>>
  \/ GetPlugin /\ UNCHANGED <<migVars, cacheVars, concVars, waitVars, fixedVars>>
  \/ isPluginErrorFatal /\ UNCHANGED <<migVars, cacheVars, concVars, waitVars, fixedVars>>
  \/ ReturnCached /\ UNCHANGED <<migVars, cacheVars, concVars, waitVars, fixedVars>>

SpecSel == InitSel /\ [][SelNext]_vars

MigNext ==
  \/ RunBegin /\ UNCHANGED <<selVars, cacheVars, concVars, waitVars, fixedVars>>
  \/ GetDataSources /\ UNCHANGED <<selVars, cacheVars, concVars, waitVars, fixedVars>>
  \/ ForRange /\ UNCHANGED <<selVars, cacheVars, concVars, waitVars, fixedVars>>
  \/ CheckMarker /\ UNCHANGED <<selVars, cacheVars, concVars, waitVars, fixedVars>>
  \/ DecryptLegacy /\ UNCHANGED <<selVars, cacheVars, concVars, waitVars, fixedVars>>
  \/ SecretsStoreSet /\ UNCHANGED <<selVars, cacheVars, concVars, waitVars, fixedVars>>
  \/ UpdateDataSource /\ UNCHANGED <<selVars, cacheVars, concVars, waitVars, fixedVars>>
  \/ CheckCleanup /\ UNCHANGED <<selVars, cacheVars, concVars, waitVars, fixedVars>>
  \/ DeleteDataSourceSecrets /\ UNCHANGED <<selVars, cacheVars, concVars, waitVars, fixedVars>>
  \/ InTransactionEnd /\ UNCHANGED <<selVars, cacheVars, concVars, waitVars, fixedVars>>

SpecMig == InitMig /\ [][MigNext]_vars

CacheNext ==
  \/ CacheGet /\ UNCHANGED <<selVars, migVars, concVars, waitVars, fixedVars>>
  \/ CacheSet /\ UNCHANGED <<selVars, migVars, concVars, waitVars, fixedVars>>
  \/ CacheDel /\ UNCHANGED <<selVars, migVars, concVars, waitVars, fixedVars>>
  \/ CacheRename /\ UNCHANGED <<selVars, migVars, concVars, waitVars, fixedVars>>
  \/ CacheKeysCall /\ UNCHANGED <<selVars, migVars, concVars, waitVars, fixedVars>>
  \/ Sweep /\ UNCHANGED <<selVars, migVars, concVars, waitVars, fixedVars>>
  \/ Tick /\ UNCHANGED <<selVars, migVars, concVars, waitVars, fixedVars>>
  \/ OutOfBand /\ UNCHANGED <<selVars, migVars, concVars, waitVars, fixedVars>>

SpecCache == InitCache /\ [][CacheNext]_vars

ConcNext ==
  \/ ConcGetLookup /\ UNCHANGED <<selVars, migVars, cacheVars, waitVars, fixedVars>>
  \/ ConcGetCallThrough /\ UNCHANGED <<selVars, migVars, cacheVars, waitVars, fixedVars>>
  \/ ConcGetPopulate /\ UNCHANGED <<selVars, migVars, cacheVars, waitVars, fixedVars>>
  \/ ConcWriteThrough /\ UNCHANGED <<selVars, migVars, cacheVars, waitVars, fixedVars>>
  \/ ConcInvalidate /\ UNCHANGED <<selVars, migVars, cacheVars, waitVars, fixedVars>>
  \/ ConcSweep /\ UNCHANGED <<selVars, migVars, cacheVars, waitVars, fixedVars>>
  \/ ConcTick /\ UNCHANGED <<selVars, migVars, cacheVars, waitVars, fixedVars>>

SpecConc == InitConc /\ [][ConcNext]_vars

WaitNext ==
  \/ AddEventListener /\ UNCHANGED <<selVars, migVars, cacheVars, concVars, fixedVars>>
  \/ TimeAfter /\ UNCHANGED <<selVars, migVars, cacheVars, concVars, fixedVars>>
  \/ CheckWait /\ UNCHANGED <<selVars, migVars, cacheVars, concVars, fixedVars>>
  \/ DataSourceCreated /\ UNCHANGED <<selVars, migVars, cacheVars, concVars, fixedVars>>
  \/ ClockTick /\ UNCHANGED <<selVars, migVars, cacheVars, concVars, fixedVars>>

SpecWait == InitWait /\ [][WaitNext]_vars

FixedNext ==
  \/ FixedGet /\ UNCHANGED <<selVars, migVars, cacheVars, concVars, waitVars>>
  \/ FixedSet /\ UNCHANGED <<selVars, migVars, cacheVars, concVars, waitVars>>
  \/ FixedDel /\ UNCHANGED <<selVars, migVars, cacheVars, concVars, waitVars>>
  \/ FixedKeys /\ UNCHANGED <<selVars, migVars, cacheVars, concVars, waitVars>>
  \/ FixedRename /\ UNCHANGED <<selVars, migVars, cacheVars, concVars, waitVars>>

SpecFixed == InitFixed /\ [][FixedNext]_vars

\* ================================================================ properties

\* ------------------------------------------------------------ ProvideService

\* C1: when ShouldUseRemoteSecretsPlugin returned an error and
\* isPluginErrorFatal returned (true, nil), ProvideService returns a nil store
\* together with the error of the capability check, and never a usable store.
C1_FatalErrorReturnsNoStore ==
  (consulted /\ err # Nil /\ isFatal /\ err2 = Nil)
    => /\ selPc = "done"
       /\ ret.returned
       /\ ret.store = NoStore
       /\ ret.err = err

C1_Witness ==
  /\ selPc = "done"
  /\ consulted /\ err # Nil /\ isFatal /\ err2 = Nil
  /\ ret.returned /\ ret.err = err

\* C2: when the capability check returned (true, nil) and GetPlugin failed,
\* ProvideService returns the cached store over the SQL backend and a nil
\* error, after logging the fallback and without calling isPluginErrorFatal.
C2_GetPluginFailureFallsBackToSQL ==
  (selPc = "done" /\ usePlugin /\ err = Nil /\ pluginErr # Nil)
    => /\ ret.returned
       /\ ret.err = Nil
       /\ ret.store = NewCachedKVStore("sql", DefaultExpiration, CleanupInterval)
       /\ ~consulted
       /\ selLog[Len(selLog)] = "plugin client was nil, falling back to SQL"

C2_Witness ==
  /\ selPc = "done" /\ usePlugin /\ err = Nil /\ pluginErr # Nil
  /\ ret.returned /\ ret.store.backend = "sql"

\* ----------------------------------------------------------------------- Run

\* A call of Run has returned nil.
RunSucceeded == migPc = "idle" /\ runs > 0 /\ runErr = Nil

\* A call of Run has returned an error.
RunFailed == migPc = "idle" /\ runs > 0 /\ runErr # Nil

\* The completion marker of a record is the boolean true.
MarkerTrue(ds) == MarkerKey \in DOMAIN ds.JsonData /\ ds.JsonData[MarkerKey] = "true"

\* The serialized decrypted legacy secrets of a record, written out.
SerializedSecrets(ds) ==
  IF DOMAIN ds.SecureJsonData = {}
    THEN << <<>> >>
    ELSE << << <<"basicAuthPassword", <<"b@sic", ds.Id>> >>,
               <<"password", <<"p@ss", ds.Id>> >> >> >>

KeyOfRecord(ds) == <<ds.OrgId, ds.Name, "datasource">>

\* C3: after a Run that returned nil, every record listed without the marker
\* being true has its serialized decrypted legacy secrets in the secrets store
\* under (OrgId, Name, "datasource"), and its marker is persisted as true.
C3_UnmarkedRecordIsMigrated ==
  RunSucceeded =>
    \A i \in DOMAIN listed :
      ~MarkerTrue(listed[i]) =>
        /\ KVGet(kvs, KeyOfRecord(listed[i])) =
             [value |-> SerializedSecrets(listed[i]), found |-> TRUE]
        /\ MarkerTrue(db[listed[i].Id])

C3_Witness ==
  /\ RunSucceeded
  /\ \E i \in DOMAIN listed :
       /\ ~MarkerTrue(listed[i])
       /\ listed[i].OrgId = 7 /\ listed[i].Name = "influx-1"
       /\ DOMAIN listed[i].SecureJsonData # {}
       /\ KVGet(kvs, <<7, "influx-1", "datasource">>).found
       /\ MarkerTrue(db[listed[i].Id])

\* C4: for a record listed with its marker already true, Run calls neither
\* DecryptLegacySecrets nor the store's Set nor UpdateDataSource, and the
\* record's entry in the secrets store and its settings blob stay as they were
\* when Run began.
C4_MarkedRecordIsSkipped ==
  \A i \in DOMAIN listed :
    MarkerTrue(listed[i]) =>
      /\ <<"DecryptLegacySecrets", listed[i].Id>> \notin calls
      /\ <<"Set", listed[i].Id>> \notin calls
      /\ <<"UpdateDataSource", listed[i].Id>> \notin calls
      /\ KVGet(kvs, KeyOfRecord(listed[i])) = KVGet(prev.kvs, KeyOfRecord(listed[i]))
      /\ db[listed[i].Id].JsonData = listed[i].JsonData
      /\ (txdb # <<>> => txdb[listed[i].Id].JsonData = listed[i].JsonData)

C4_Witness ==
  /\ RunSucceeded
  /\ \E i, j \in DOMAIN listed :
       /\ MarkerTrue(listed[i])
       /\ <<"Set", listed[j].Id>> \in calls

\* The completion markers of the records.
Markers(recs) == [i \in DOMAIN recs |-> MarkerTrue(recs[i])]

IssuedIn(cs, call) == {c \in cs : c[1] = call}

\* C5: a Run that follows a Run that returned nil calls neither the store's
\* Set nor DecryptLegacySecrets and, when it returns nil too, leaves the
\* secrets store and the completion markers as the first Run left them.
C5_SecondRunChangesNothing ==
  (prev.ran /\ prev.ok) =>
    /\ IssuedIn(calls, "Set") = {}
    /\ IssuedIn(calls, "DecryptLegacySecrets") = {}
    /\ RunSucceeded => (kvs = prev.kvs /\ Markers(db) = Markers(prev.db))

C5_Witness ==
  /\ RunSucceeded
  /\ runs = 2
  /\ prev.ran /\ prev.ok
  /\ kvs # NoKeys
  /\ \A i \in DSIds : MarkerTrue(db[i])

\* C6: when an external call of Run fails, Run returns the error of that
\* call, makes no further call, and the transaction is rolled back: the
\* records are those the Run began with.
C6_FailureAbortsAndRollsBack ==
  /\ failed # NoCall =>
       /\ migPc \in {"return", "idle"}
       /\ \A c \in calls : c[2] <= failed[2]
       /\ fnErr = ErrOf(failed[1])
       /\ migPc = "idle" => runErr = ErrOf(failed[1])
  /\ RunFailed => (failed # NoCall /\ db = prev.db)

C6_Witness ==
  /\ RunFailed
  /\ \E i \in DOMAIN listed :
       /\ <<"UpdateDataSource", listed[i].Id>> \in calls
       /\ failed # <<"UpdateDataSource", listed[i].Id>>
       /\ ~MarkerTrue(db[listed[i].Id])

\* C7: DeleteDataSourceSecrets is only called for a record when the flag is
\* enabled and the record was listed with a legacy payload that is not empty;
\* a Run that returned nil has called it for every such record, whether the
\* record's marker was true or not, and has left the payload empty.
C7_CleanupIndependentOfMarker ==
  /\ \A i \in DOMAIN listed :
       <<"DeleteDataSourceSecrets", listed[i].Id>> \in calls
         => (flag /\ DOMAIN listed[i].SecureJsonData # {})
  /\ RunSucceeded =>
       \A i \in DOMAIN listed :
         (flag /\ DOMAIN listed[i].SecureJsonData # {})
           => /\ <<"DeleteDataSourceSecrets", listed[i].Id>> \in calls
              /\ DOMAIN db[listed[i].Id].SecureJsonData = {}

C7_Witness ==
  /\ RunSucceeded
  /\ flag
  /\ \E i, j \in DOMAIN listed :
       /\ MarkerTrue(listed[i]) /\ ~MarkerTrue(listed[j])
       /\ <<"DeleteDataSourceSecrets", listed[i].Id>> \in calls
       /\ <<"DeleteDataSourceSecrets", listed[j].Id>> \in calls
       /\ DOMAIN db[listed[i].Id].SecureJsonData = {}

\* --------------------------------------------------------- caching decorator

\* C8: a Get that immediately follows a successful Set of the same key
\* returns the value just written with found = true, whatever was cached for
\* the key before the Set.
C8_GetAfterSetReturnsWritten ==
  (lastOp.op = "Set" /\ lastOp.err = Nil) =>
    LET got == CachedGet(cache, under, now, lastOp.key, Nil)
    IN  /\ got.err = Nil
        /\ got.res = [value |-> lastOp.value, found |-> TRUE]

C8_Witness ==
  /\ lastOp.op = "Set" /\ lastOp.err = Nil
  /\ lastOp.seenLive

\* C9: after a successful Rename of a key that held a value to another
\* namespace, a Get of the old key returns not found and a Get of the new key
\* returns the value the old key held, whatever was cached for the two keys.
C9_GetAfterRename ==
  (lastOp.op = "Rename" /\ lastOp.err = Nil /\ lastOp.newKey # lastOp.key) =>
    /\ ~CachedGet(cache, under, now, lastOp.key, Nil).res.found
    /\ lastOp.prior.found =>
         CachedGet(cache, under, now, lastOp.newKey, Nil).res = lastOp.prior

C9_Witness ==
  /\ lastOp.op = "Rename" /\ lastOp.err = Nil /\ lastOp.newKey # lastOp.key
  /\ lastOp.prior.found
  /\ lastOp.seenLive

\* C10: a Get is answered from the cache only by an entry that has not
\* expired; a Get that finds an expired entry, swept or not, or none, calls
\* through and returns what the underlying store holds.
C10_ExpiredEntryIsNotServed ==
  (lastOp.op = "Get" /\ lastOp.err = Nil) =>
    /\ lastOp.fromCache =>
         /\ lastOp.key \in DOMAIN cache
         /\ now < cache[lastOp.key].expiry
         /\ lastOp.res = EntryRes(cache[lastOp.key])
    /\ lastOp.seenExpired => ~lastOp.fromCache
    /\ ~lastOp.fromCache => lastOp.res = KVGet(under, lastOp.key)

C10_Witness ==
  /\ lastOp.op = "Get" /\ lastOp.err = Nil
  /\ lastOp.seenExpired /\ lastOp.seenOther
  /\ now >= DefaultExpiration
  /\ lastOp.res = KVGet(under, lastOp.key)

\* C11: when the underlying Set, Del or Rename, or the Get a miss calls
\* through to, returns an error, the decorator returns that same error and
\* the cache holds exactly the entries it held before the call; the
\* underlying store is as it was.
C11_FailedCallLeavesCacheAsItWas ==
  [][(/\ lastOp'.op \in {"Get", "Set", "Del", "Rename"}
      /\ lastOp'.storeErr # Nil)
       => (/\ lastOp'.err = lastOp'.storeErr
           /\ cache' = cache
           /\ under' = under)]_vars

\* A Set failed on a key whose entry is in the cache and live.
C11_Witness ==
  /\ lastOp.op = "Set"
  /\ lastOp.storeErr # Nil
  /\ lastOp.err = lastOp.storeErr
  /\ lastOp.key \in DOMAIN cache
  /\ Live(cache[lastOp.key], now)

\* C12: a Get that started after a successful Set or Del on the key had
\* returned observes that write or a later one: the write its result comes
\* from is not older than the latest write that had completed when it started.
C12_GetObservesCompletedWrite ==
  \A c \in Callers :
    (caller[c].pc = "idle" /\ caller[c].op = "Get" /\ caller[c].err = Nil)
      => caller[c].ver >= caller[c].since

\* --------------------------------------------------------- await-provisioning

\* C13: the migrate phase starts only after a complete wait interval in which
\* no notification arrived: when WaitForProvisioning returns to Run, the
\* interval has passed since its last listener was registered and no event
\* was published in it.
C13_MigrateAfterQuietInterval ==
  wpc = "migrate" =>
    /\ migrateAt - regAt >= WaitInterval
    /\ lastEvent < regAt

\* --------------------------------------------------------------- FixedKVStore

\* C14: after a successful Rename(newNamespace) the Namespace of the handle is
\* newNamespace, and after a failed one the error is returned and Namespace
\* is as before; OrgId and Type never change, the other calls leave the handle
\* as it is, and every call addresses the (OrgId, Namespace, Type) the handle
\* held when it was made, so that the calls after a successful Rename
\* address (OrgId, newNamespace, Type).
C14_RenameMovesTheView ==
  fixedOp.op # "none" =>
    /\ fixedOp.key = <<fixedOp.before.OrgId, fixedOp.before.Namespace,
                       fixedOp.before.Type>>
    /\ fixedOp.err = fixedOp.storeErr
    /\ fixed.OrgId = fixedOp.before.OrgId
    /\ fixed.Type = fixedOp.before.Type
    /\ fixed.Namespace =
         IF fixedOp.op = "Rename" /\ fixedOp.err = Nil
           THEN fixedOp.newNamespace
           ELSE fixedOp.before.Namespace

\* A Rename to another namespace failed on a handle that an earlier Rename had
\* moved, and whose key holds a value.
C14_Witness ==
  /\ fixedOp.op = "Rename"
  /\ fixedOp.err # Nil
  /\ fixedOp.newNamespace # fixed.Namespace
  /\ fixed.Namespace = "b"
  /\ <<fixed.OrgId, "b", fixed.Type>> \in DOMAIN fstore
  /\ <<fixed.OrgId, "a", fixed.Type>> \notin DOMAIN fstore

\* ------------------------------------------------ ProvideService, the branches

\* C15: when ShouldUseRemoteSecretsPlugin returned (true, nil) and GetPlugin
\* returned no error, ProvideService returns a nil error and the cached
\* plugin-backed store, without classifying anything.
C15_RemotePathSelectsPlugin ==
  (ret.returned /\ usePlugin /\ err = Nil /\ attempted /\ pluginErr = Nil)
    => /\ ret.err = Nil
       /\ ret.store = NewCachedKVStore("plugin", DefaultExpiration, CleanupInterval)
       /\ ~consulted

C15_Witness ==
  /\ ret.returned
  /\ usePlugin /\ err = Nil
  /\ attempted /\ pluginErr = Nil
  /\ ret.store.backend = "plugin"

\* C16: when ShouldUseRemoteSecretsPlugin returned (false, nil),
\* ProvideService returns a nil error and the cached SQL store; GetPlugin and
\* isPluginErrorFatal are not called.
C16_DefaultPathSelectsSQL ==
  (selPc # "start" /\ ~usePlugin /\ err = Nil)
    => /\ ~attempted
       /\ ~consulted
       /\ selPc \in {"return", "done"}
       /\ ret.returned =>
            /\ ret.err = Nil
            /\ ret.store = NewCachedKVStore("sql", DefaultExpiration, CleanupInterval)

C16_Witness ==
  /\ ret.returned
  /\ ~usePlugin /\ err = Nil
  /\ ret.store.backend = "sql"
  /\ selLog = <<"using the default (SQL) implementation">>

\* C17: when ShouldUseRemoteSecretsPlugin returned an error, GetPlugin is not
\* called and the plugin store is never selected, whatever the flag; and when
\* isPluginErrorFatal then returned (false, nil), ProvideService returns a nil
\* error and the cached SQL store.
C17_NonFatalErrorFallsBackToSQL ==
  (selPc # "start" /\ err # Nil)
    => /\ ~attempted
       /\ store # "plugin"
       /\ ret.store.backend # "plugin"
       /\ (ret.returned /\ ~isFatal /\ err2 = Nil) =>
            /\ consulted
            /\ ret.err = Nil
            /\ ret.store = NewCachedKVStore("sql", DefaultExpiration, CleanupInterval)

\* The check returned (true, err) and the classification (false, nil).
C17_Witness ==
  /\ ret.returned
  /\ usePlugin /\ err # Nil
  /\ consulted /\ ~isFatal /\ err2 = Nil
  /\ ret.store.backend = "sql"

\* C18: when ShouldUseRemoteSecretsPlugin returned an error and
\* isPluginErrorFatal returned an error itself, ProvideService returns no
\* store and a non-nil error, the error of the classification, whatever the
\* boolean isPluginErrorFatal returned.
C18_FailedClassificationAborts ==
  (consulted /\ err # Nil /\ err2 # Nil)
    => /\ ret.returned
       /\ selPc = "done"
       /\ ret.store = NoStore
       /\ ret.err # Nil
       /\ ret.err = err2

\* The classification returned (false, err2), with err2 another error than
\* the one of the check.
C18_Witness ==
  /\ ret.returned
  /\ consulted /\ ~isFatal
  /\ err # Nil /\ err2 # Nil /\ err2 # err
  /\ ret.store = NoStore

\* ------------------------------------------------------------ Run, resumption

\* The secrets store a single Run that returns nil leaves from an empty store:
\* the serialized secrets of every record whose marker was not true.
MigratedStore(recs) ==
  [k \in {KeyOfRecord(recs[i]) : i \in {j \in DOMAIN recs : ~MarkerTrue(recs[j])}} |->
     SerializedSecrets(CHOOSE ds \in {recs[i] : i \in DOMAIN recs} :
                         KeyOfRecord(ds) = k)]

\* C19: when every Run so far failed, its transaction rolled back and the
\* values it had Set left in the secrets store, and the Run after them returns
\* nil, the secrets store and the markers are those a single Run that returns
\* nil produces from the original records, and every record whose marker is
\* not true in the rolled-back records is migrated again: its secrets Set and
\* its marker updated in the Run that succeeds.
C19_ResumptionAfterFailedRun ==
  (RunSucceeded /\ prev.ran /\ ~prev.anyOk) =>
    /\ kvs = MigratedStore(prev.db)
    /\ \A i \in DSIds : MarkerTrue(db[i])
    /\ \A i \in DSIds :
         ~MarkerTrue(prev.db[i]) =>
           /\ <<"Set", i>> \in calls
           /\ <<"UpdateDataSource", i>> \in calls

\* The failed Run had Set the secrets of a record before it failed; the
\* record came back without its marker and the Run after it returned nil.
C19_Witness ==
  /\ RunSucceeded
  /\ prev.ran /\ ~prev.anyOk
  /\ \E i \in DSIds :
       /\ ~MarkerTrue(prev.db[i])
       /\ KeyOfRecord(prev.db[i]) \in DOMAIN prev.kvs
       /\ MarkerTrue(db[i])

\* --------------------------------------------------------------- Run, ordering

\* The records as the open transaction sees them, or the committed records
\* when no transaction is open.
RecordsInView == IF txdb = <<>> THEN db ELSE txdb

\* The secrets store holds the serialized secrets of a record as listed.
SecretStored(ds) ==
  KVGet(kvs, KeyOfRecord(ds)) = [value |-> SerializedSecrets(ds), found |-> TRUE]

\* C20: UpdateDataSource with the marker is issued for a record only after the
\* Set of its secrets succeeded, and DeleteDataSourceSecrets for a record
\* listed without a true marker only after both succeeded; so in every state,
\* during a Run and after it, a record whose marker this Run set, or whose
\* legacy payload it cleared after migrating it, has its secrets in the store.
C20_MarkerImpliesStoredSecret ==
  \A i \in DOMAIN listed :
    ~MarkerTrue(listed[i]) =>
      /\ <<"UpdateDataSource", i>> \in calls =>
           /\ <<"Set", i>> \in calls
           /\ failed # <<"Set", i>>
           /\ SecretStored(listed[i])
      /\ <<"DeleteDataSourceSecrets", i>> \in calls =>
           /\ <<"Set", i>> \in calls
           /\ <<"UpdateDataSource", i>> \in calls
           /\ failed \notin {<<"Set", i>>, <<"UpdateDataSource", i>>}
      /\ \A recs \in {db, RecordsInView} :
           (\/ MarkerTrue(recs[i])
            \/ recs[i].SecureJsonData # listed[i].SecureJsonData)
             => SecretStored(listed[i])

\* In the middle of a Run: the legacy payload of a record listed without a
\* true marker has been cleared in the transaction, which is still open.
C20_Witness ==
  /\ migPc \in {"loop", "check"}
  /\ \E i \in DOMAIN listed :
       /\ ~MarkerTrue(listed[i])
       /\ DOMAIN listed[i].SecureJsonData # {}
       /\ <<"DeleteDataSourceSecrets", i>> \in calls
       /\ MarkerTrue(txdb[i])
       /\ DOMAIN txdb[i].SecureJsonData = {}
       /\ ~MarkerTrue(db[i])
       /\ SecretStored(listed[i])

\* ------------------------------------------------------------------ Run, frame

\* The settings of a record other than the completion marker.
SettingsBesideMarker(ds) ==
  [k \in DOMAIN ds.JsonData \ {MarkerKey} |-> ds.JsonData[k]]

\* The records new are the records old but for markers and legacy payloads.
SameButMarkerAndPayload(old, new) ==
  /\ DOMAIN new = DOMAIN old
  /\ \A i \in DOMAIN old :
       /\ new[i].Id = old[i].Id
       /\ new[i].OrgId = old[i].OrgId
       /\ new[i].Uid = old[i].Uid
       /\ new[i].Name = old[i].Name
       /\ SettingsBesideMarker(new[i]) = SettingsBesideMarker(old[i])

\* C21: over any Run the set of records is unchanged, and a record differs
\* from what it was when the Run began in nothing but the completion marker of
\* its settings and its legacy payload: tenant, identifiers, name and the
\* other settings are preserved, in the open transaction and in what is
\* persisted when the Run has returned.
C21_RunChangesOnlyMarkerAndPayload ==
  /\ DOMAIN db = DSIds
  /\ (migPc # "idle" \/ runs > 0) =>
       /\ SameButMarkerAndPayload(prev.db, db)
       /\ migPc \notin {"idle", "list"} => SameButMarkerAndPayload(prev.db, txdb)

\* A Run returned nil and persisted a record with its marker set and its
\* legacy payload cleared, the record holding settings beside the marker.
C21_Witness ==
  /\ RunSucceeded
  /\ \E i \in DSIds :
       /\ ~MarkerTrue(prev.db[i]) /\ MarkerTrue(db[i])
       /\ DOMAIN prev.db[i].SecureJsonData # {}
       /\ DOMAIN db[i].SecureJsonData = {}
       /\ DOMAIN SettingsBesideMarker(db[i]) # {}
       /\ MarkerKey \in DOMAIN prev.db[i].JsonData

\* ----------------------------------------------- await-provisioning, retrying

\* C22: WaitForProvisioning keeps waiting as long as a notification arrives
\* in every wait window, and returns only once a window has passed without
\* one: it has not returned to Run while a DataSourceCreated event lies in the
\* wait window that began when its last listener was registered.
C22_KeepsWaitingWhileNotified ==
  wpc = "migrate" =>
    ~(lastEvent > regAt /\ lastEvent < regAt + WaitInterval)

====
